---- MODULE Spec2Model ----
(***************************************************************************)
(* State-machine model of CodeSignature::parse (src/src/codedir.rs) and    *)
(* of the decoders it drives: SuperBlob::parse, CodeDirectory::parse,      *)
(* compute_cd_hash, read_string_to_nul, team_id, hash_type_str, cd_hashes  *)
(* and computed_cd_hashes.                                                 *)
(*                                                                         *)
(* The buffer is a sequence of bytes.  A u32 is kept as the pair           *)
(* <<hi, lo>> of its 16-bit halves, so that magics such as 0xfade0cc0 and  *)
(* the 32-bit wrap of the offset sums are represented exactly.  A digest   *)
(* is the pair <<algorithm, bytes hashed>> (an injective stand-in for      *)
(* ring::digest).                                                          *)
(***************************************************************************)
EXTENDS Integers, Sequences, FiniteSets, TLC

VARIABLES
    buffer,       \* the bytes behind the Cursor (read-only)
    offset,       \* parameter `offset` of CodeSignature::parse, a u32
    entry_pos,    \* the cursor position when parse was called
    pos,          \* Cursor position
    pc,           \* where CodeSignature::parse stands
    super_blob,   \* local `super_blob`
    log_digest,   \* the "SIGNATURE DIGEST" handed to info!
    idx,          \* loop variable `idx` (0-based)
    peek,         \* locals `magic` and `length` of the 8-byte peek
    cd,           \* local `cd` and the fields gathered for Blob::CodeDirectory
    blobs,        \* local `blobs`
    cd_blob_idx,  \* local `cd_blob_idx`
    result        \* what parse returned

vars == <<buffer, offset, entry_pos, pos, pc, super_blob, log_digest, idx,
          peek, cd, blobs, cd_blob_idx, result>>

(***************************************************************************)
(* Bounds of the inputs.                                                   *)
(***************************************************************************)
MaxCount == 2
MaxPageSize == 2
MaxCodeLimit == 5
MaxCodeSlots == 3
MaxSpecialSlots == 2
MaxHashSize == 2

(***************************************************************************)
(* 32-bit arithmetic.                                                      *)
(***************************************************************************)
Half == 256 * 256

\* Every modelled buffer is shorter than Beyond; a position or a byte count
\* of Beyond or more behaves like any other one past the end of the buffer.
Beyond == Half

U32OfNat(n) == <<n \div Half, n % Half>>

None == [some |-> FALSE]

Some(v) == [some |-> TRUE, val |-> v]

Ok(v) == [ok |-> TRUE, val |-> v]

Err(e) == [ok |-> FALSE, err |-> e]

\* byteorder::ReadBytesExt::read_u32::<NetworkEndian> on four bytes
U32FromBytes(b) == <<b[1] * 256 + b[2], b[3] * 256 + b[4]>>

U32Bytes(x) == <<x[1] \div 256, x[1] % 256, x[2] \div 256, x[2] % 256>>

\* `x as u64` / `x as usize` of a u32, as a cursor position or a byte count
ToU64(x) == IF x[1] = 0 THEN x[2] ELSE Beyond

Geq32(a, b) == a[1] > b[1] \/ (a[1] = b[1] /\ a[2] >= b[2])

\* u32 `a + b`: the wrapped value, and whether the sum left the u32 range
Add32(a, b) ==
    LET lo == a[2] + b[2]
        hi == a[1] + b[1] + (lo \div Half)
    IN  [val |-> <<hi % Half, lo % Half>>, overflow |-> hi >= Half]

\* u32 `a - b`
Sub32(a, b) ==
    LET lo == a[2] - b[2]
        hi == a[1] - b[1] - (IF lo < 0 THEN 1 ELSE 0)
    IN  [val |-> <<(hi + Half) % Half, (lo + Half) % Half>>, overflow |-> hi < 0]

\* u32 `(h as u32) * x` for a u8 h
Mul32(h, x) ==
    LET lo == h * x[2]
        hi == h * x[1] + (lo \div Half)
    IN  [val |-> <<hi % Half, lo % Half>>, overflow |-> hi >= Half]

(***************************************************************************)
(* Constants (src/src/consts.rs, src/src/codedir.rs).                      *)
(***************************************************************************)
CSMAGIC_REQUIREMENT == <<64222, 3072>>           \* 0xfade0c00

CSMAGIC_REQUIREMENTS == <<64222, 3073>>          \* 0xfade0c01

CSMAGIC_CODEDIRECTORY == <<64222, 3074>>         \* 0xfade0c02

CSMAGIC_EMBEDDED_SIGNATURE == <<64222, 3264>>    \* 0xfade0cc0

CSMAGIC_DETACHED_SIGNATURE == <<64222, 3265>>    \* 0xfade0cc1

CSMAGIC_BLOBWRAPPER == <<64222, 2817>>           \* 0xfade0b01

\* imported by codedir.rs, defined in no source file at hand: value of the
\* specification's magic table (0xfade7171)
CSMAGIC_EMBEDDED_ENTITLEMENTS == <<64222, 29041>>

CS_HASHTYPE_SHA1 == 1

CS_HASHTYPE_SHA256 == 2

CS_HASHTYPE_SHA256_TRUNCATED == 3

earliestVersion == <<2, 1>>                      \* 0x20001

supportsScatter == <<2, 256>>                    \* 0x20100

supportsTeamID == <<2, 512>>                     \* 0x20200

supportsCodeLimit64 == <<2, 768>>                \* 0x20300

supportsExecSegment == <<2, 1024>>               \* 0x20400

compatibilityLimit == <<2, 61440>>               \* 0x2F000

(***************************************************************************)
(* The Cursor: reads of the buffer.                                        *)
(***************************************************************************)
\* Read::read_exact of n bytes at position p succeeds
CanRead(buf, p, n) == n = 0 \/ p + n <= Len(buf)

Bytes(buf, p, n) == SubSeq(buf, p + 1, p + n)

ReadU32(buf, p) == U32FromBytes(Bytes(buf, p, 4))

ReadU8(buf, p) == buf[p + 1]

\* ring::digest::digest(alg, data)
Digest(alg, data) == <<alg, data>>

\* hex::encode of bytes: two hexadecimal digits (0..15) per byte
HexEncode(bs) ==
    [k \in 1..(2 * Len(bs)) |->
        IF k % 2 = 1 THEN bs[(k + 1) \div 2] \div 16 ELSE bs[k \div 2] % 16]

\* hex::encode of a digest, the digest staying symbolic
HexDigest(d) == [hex_of |-> d]

\* the inverse of HexEncode, to state what a hex string holds
HexDecode(hs) ==
    [k \in 1..(Len(hs) \div 2) |-> hs[2 * k - 1] * 16 + hs[2 * k]]

(***************************************************************************)
(* str::from_utf8 and read_string_to_nul.                                  *)
(***************************************************************************)
Continuation(b) == b >= 128 /\ b <= 191

\* the range the second byte of a 3- or 4-byte sequence must lie in
SecondOk(lead, b) ==
    IF lead = 224 THEN b >= 160 /\ b <= 191
    ELSE IF lead = 237 THEN b >= 128 /\ b <= 159
    ELSE IF lead = 240 THEN b >= 144 /\ b <= 191
    ELSE IF lead = 244 THEN b >= 128 /\ b <= 143
    ELSE Continuation(b)

RECURSIVE ValidUtf8(_, _)
\* str::from_utf8(bs) is Ok, scanning from index i
ValidUtf8(bs, i) ==
    IF i > Len(bs) THEN TRUE
    ELSE LET b == bs[i] IN
        IF b < 128 THEN ValidUtf8(bs, i + 1)
        ELSE IF b >= 194 /\ b <= 223
            THEN i + 1 <= Len(bs) /\ Continuation(bs[i + 1]) /\ ValidUtf8(bs, i + 2)
        ELSE IF b >= 224 /\ b <= 239
            THEN i + 2 <= Len(bs) /\ SecondOk(b, bs[i + 1]) /\ Continuation(bs[i + 2])
                 /\ ValidUtf8(bs, i + 3)
        ELSE IF b >= 240 /\ b <= 244
            THEN i + 3 <= Len(bs) /\ SecondOk(b, bs[i + 1]) /\ Continuation(bs[i + 2])
                 /\ Continuation(bs[i + 3]) /\ ValidUtf8(bs, i + 4)
        ELSE FALSE

\* read_string_to_nul(buf) with the cursor at p: read_until(0x00) takes the
\* bytes up to and including the first NUL, or up to the end of the buffer;
\* `&ident[0..sz - 1]` drops the last byte read and panics when sz = 0.
read_string_to_nul(buf, p) ==
    IF p >= Len(buf) THEN [kind |-> "panic", pos |-> p]
    ELSE LET nuls == {q \in (p + 1)..Len(buf) : buf[q] = 0}
             last == IF nuls = {} THEN Len(buf)
                     ELSE CHOOSE q \in nuls : \A r \in nuls : q <= r
             text == SubSeq(buf, p + 1, last - 1)
         IN  [kind |-> "returned",
              res  |-> IF ValidUtf8(text, 1) THEN Ok(text) ELSE Err("Utf8Error"),
              pos  |-> last]

(***************************************************************************)
(* SuperBlob::parse.                                                       *)
(***************************************************************************)
\* the index entry i (1-based) of a SuperBlob read at p: Some when both of
\* its u32 could be read, None otherwise
IndexEntry(buf, p, i) ==
    LET q == p + 12 + 8 * (i - 1)
    IN  IF CanRead(buf, q, 8)
        THEN Some([typ |-> ReadU32(buf, q), offset |-> ReadU32(buf, q + 4)])
        ELSE None

SuperBlobParse(buf, p) ==
    IF ~CanRead(buf, p, 12) THEN Err("IoError")
    ELSE LET count == ReadU32(buf, p + 8)
             n     == ToU64(count)
             index == [i \in 1..n |-> IndexEntry(buf, p, i)]
             full  == Cardinality({i \in 1..n : index[i].some})
             after == p + 12 + 8 * full
         IN  Ok([sb  |-> [magic  |-> ReadU32(buf, p),
                          length |-> ReadU32(buf, p + 4),
                          count  |-> count,
                          index  |-> index],
                 pos |-> IF full < n /\ CanRead(buf, after, 4)
                         THEN after + 4 ELSE after])

(***************************************************************************)
(* CodeDirectory.                                                          *)
(***************************************************************************)
U64Zero == <<0, 0, 0, 0>>

\* CodeDirectory { .. } with every field of Default::default()
DefaultCodeDirectory ==
    [magic |-> <<0, 0>>, length |-> <<0, 0>>, version |-> <<0, 0>>,
     flags |-> <<0, 0>>, hashOffset |-> <<0, 0>>, identOffset |-> <<0, 0>>,
     nSpecialSlots |-> <<0, 0>>, nCodeSlots |-> <<0, 0>>, codeLimit |-> <<0, 0>>,
     hashSize |-> 0, hashType |-> 0, platform |-> 0, pageSize |-> 0,
     spare2 |-> <<0, 0>>, scatterOffset |-> <<0, 0>>, teamIDOffset |-> <<0, 0>>,
     spare3 |-> <<0, 0>>, codeLimit64 |-> U64Zero, execSegBase |-> U64Zero,
     execSegLimit |-> U64Zero, execSegFlags |-> U64Zero]

ReadsScatter(version) == Geq32(version, supportsScatter)

ReadsTeamID(version) == Geq32(version, supportsTeamID)

\* CodeDirectory::parse with the cursor at p
CodeDirectoryParse(buf, p) ==
    IF ~CanRead(buf, p, 44) THEN Err("IoError")
    ELSE LET version == ReadU32(buf, p + 8)
             q1 == p + 44
             q2 == IF ReadsScatter(version) THEN q1 + 4 ELSE q1
             q3 == IF ReadsTeamID(version) THEN q2 + 4 ELSE q2
         IN  IF ~CanRead(buf, p, q3 - p) THEN Err("IoError")
             ELSE Ok([cd |-> [DefaultCodeDirectory EXCEPT
                          !.magic = ReadU32(buf, p),
                          !.length = ReadU32(buf, p + 4),
                          !.version = version,
                          !.flags = ReadU32(buf, p + 12),
                          !.hashOffset = ReadU32(buf, p + 16),
                          !.identOffset = ReadU32(buf, p + 20),
                          !.nSpecialSlots = ReadU32(buf, p + 24),
                          !.nCodeSlots = ReadU32(buf, p + 28),
                          !.codeLimit = ReadU32(buf, p + 32),
                          !.hashSize = ReadU8(buf, p + 36),
                          !.hashType = ReadU8(buf, p + 37),
                          !.platform = ReadU8(buf, p + 38),
                          !.pageSize = ReadU8(buf, p + 39),
                          !.spare2 = ReadU32(buf, p + 40),
                          !.scatterOffset =
                              IF ReadsScatter(version) THEN ReadU32(buf, q1) ELSE <<0, 0>>,
                          !.teamIDOffset =
                              IF ReadsTeamID(version) THEN ReadU32(buf, q2) ELSE <<0, 0>>],
                      pos |-> q3])

\* the `match self.hashType as u32` of compute_cd_hash and computed_cd_hashes
DigestType(hashType) ==
    IF hashType = CS_HASHTYPE_SHA1 THEN "SHA1"
    ELSE IF hashType = CS_HASHTYPE_SHA256 THEN "SHA256"
    ELSE "unimplemented"

\* CodeDirectory::hash_type_str
hash_type_str(c) ==
    IF c.hashType = CS_HASHTYPE_SHA1 THEN [kind |-> "returned", res |-> Ok("SHA-1")]
    ELSE IF c.hashType = CS_HASHTYPE_SHA256 THEN [kind |-> "returned", res |-> Ok("SHA-256")]
    ELSE [kind |-> "panic"]

\* CodeDirectory::team_id with the cursor at p
team_id(c, buf, p) ==
    IF Geq32(c.version, supportsTeamID) THEN read_string_to_nul(buf, p)
    ELSE [kind |-> "returned",
          res  |-> Err(<<"TeamIDNotSupportedVersion", c.version>>),
          pos  |-> p]

\* CodeDirectory::compute_cd_hash with the cursor at p
compute_cd_hash(c, buf, p) ==
    LET n == ToU64(c.length)
    IN  IF ~CanRead(buf, p, n) THEN [kind |-> "returned", res |-> Err("IoError"), pos |-> p]
        ELSE IF DigestType(c.hashType) = "unimplemented" THEN [kind |-> "panic", pos |-> p + n]
        ELSE [kind |-> "returned",
              res  |-> Ok(Some(HexDigest(Digest(DigestType(c.hashType), Bytes(buf, p, n))))),
              pos  |-> p + n]

\* `x as i32` of a u32, magnitudes of Beyond or more identified
AsI32(x) ==
    IF x[1] = 0 THEN x[2]
    ELSE IF 2 * x[1] < Half THEN Beyond
    ELSE 0 - Beyond

\* the logical slot index of the k-th (1-based) element of the hash array
SlotIndex(c, k) == (0 - AsI32(c.nSpecialSlots)) + (k - 1)

\* CodeDirectory::cd_hashes with the cursor at p: one (i, hex) pair per i in
\* -(nSpecialSlots as i32) .. nCodeSlots as i32, each the next hashSize bytes
cd_hashes(c, buf, p) ==
    LET first == 0 - AsI32(c.nSpecialSlots)
        n     == IF AsI32(c.nCodeSlots) > first THEN AsI32(c.nCodeSlots) - first ELSE 0
    IN  IF n > 0 /\ ~CanRead(buf, p, n * c.hashSize)
        THEN [res |-> Err("IoError"), pos |-> p]
        ELSE [res |-> Ok([k \in 1..n |->
                            <<SlotIndex(c, k),
                              HexEncode(Bytes(buf, p + (k - 1) * c.hashSize, c.hashSize))>>]),
              pos |-> p + n * c.hashSize]

\* `1 << self.pageSize` in u64: the shift count is taken modulo 64 where the
\* build does not check it; a page of 2^17 bytes or more exceeds every buffer
PageBytes(pageSize) ==
    IF pageSize % 64 <= 16 THEN 2 ^ (pageSize % 64) ELSE 2 * Beyond

\* every window a full page, the last one too
WindowSize_NoShortPage(c, p) == PageBytes(c.pageSize)

\* the size `sz` of the window computed_cd_hashes reads with the cursor at p
WindowSize(c, p) ==
    IF p + PageBytes(c.pageSize) > ToU64(c.codeLimit)
    THEN ToU64(c.codeLimit) - p
    ELSE PageBytes(c.pageSize)

RECURSIVE PageHashes(_, _, _, _, _)
\* the closure of computed_cd_hashes from code slot k on, cursor at p, the
\* pairs of the earlier slots in acc
PageHashes(c, buf, k, p, acc) ==
    IF k >= AsI32(c.nCodeSlots) THEN [kind |-> "returned", res |-> Ok(acc), pos |-> p]
    ELSE LET sz == WindowSize(c, p) IN
        IF sz < 0 THEN [kind |-> "panic", pos |-> p]
        ELSE IF ~CanRead(buf, p, sz) THEN [kind |-> "returned", res |-> Err("IoError"), pos |-> p]
        ELSE IF DigestType(c.hashType) = "unimplemented" THEN [kind |-> "panic", pos |-> p + sz]
        ELSE PageHashes(c, buf, k + 1, p + sz,
                 Append(acc, <<k, HexDigest(Digest(DigestType(c.hashType), Bytes(buf, p, sz)))>>))

\* CodeDirectory::computed_cd_hashes: buf.set_position(0), then the windows
computed_cd_hashes(c, buf) == PageHashes(c, buf, 0, 0, <<>>)

(***************************************************************************)
(* The inputs: envelopes laid out as the structs of codedir.rs describe    *)
(* them, cut short or pointed at from a wrong place in some scenarios.     *)
(***************************************************************************)
RECURSIVE Concat(_)
Concat(ss) == IF ss = <<>> THEN <<>> ELSE Head(ss) \o Concat(Tail(ss))

NatBytes(n) == U32Bytes(U32OfNat(n))

V20000 == <<2, 0>>

V20100 == supportsScatter

V20200 == supportsTeamID

V20300 == supportsCodeLimit64

V20400 == supportsExecSegment

V2F001 == <<2, 61441>>

Versions == {V20000, earliestVersion, V20100, V20200, V20300, V20400, V2F001}

\* the header of a CodeDirectory of version v, as the struct lays it out
HeaderLen(v) ==
    44 + (IF Geq32(v, supportsScatter) THEN 4 ELSE 0)
       + (IF Geq32(v, supportsTeamID) THEN 4 ELSE 0)
       + (IF Geq32(v, supportsCodeLimit64) THEN 12 ELSE 0)
       + (IF Geq32(v, supportsExecSegment) THEN 24 ELSE 0)

\* "x", an invalid UTF-8 byte, a two-byte character, a string with no NUL
StringBytes(kind) ==
    IF kind = "ok" THEN <<120, 0>>
    ELSE IF kind = "bad" THEN <<255, 0>>
    ELSE IF kind = "wide" THEN <<195, 169, 0>>
    ELSE <<>>

\* the packed hash array: slot k (0-based, specials first) holds hashSize
\* bytes, all zero for a special slot that is absent
SlotBytes(c) ==
    [k \in 1..((c.nSpecialSlots + c.nCodeSlots) * c.hashSize) |->
        LET slot == (k - 1) \div c.hashSize
        IN  IF c.zeroSpecial /\ slot < c.nSpecialSlots THEN 0
            ELSE 16 * (slot + 1) + ((k - 1) % c.hashSize)]

\* a CodeDirectory blob: header, identifier, team id, hash array
CDBytes(c) ==
    LET v        == c.version
        ident    == StringBytes(c.ident)
        team     == IF Geq32(v, supportsTeamID) THEN StringBytes(c.team) ELSE <<>>
        identOff == HeaderLen(v)
        teamOff  == identOff + Len(ident)
        hashOff  == teamOff + Len(team) + c.nSpecialSlots * c.hashSize
        length   == hashOff + c.nCodeSlots * c.hashSize
    IN  Concat(<<
            U32Bytes(CSMAGIC_CODEDIRECTORY), NatBytes(length), U32Bytes(v), NatBytes(0),
            NatBytes(hashOff), NatBytes(identOff), NatBytes(c.nSpecialSlots),
            NatBytes(c.nCodeSlots), NatBytes(c.codeLimit),
            <<c.hashSize, c.hashType, 0, c.pageSize>>, NatBytes(0),
            IF Geq32(v, supportsScatter) THEN NatBytes(0) ELSE <<>>,
            IF Geq32(v, supportsTeamID) THEN NatBytes(teamOff) ELSE <<>>,
            IF Geq32(v, supportsCodeLimit64)
                THEN NatBytes(0) \o <<0, 0, 0, 0, 0, 0, 0, 0>> ELSE <<>>,
            IF Geq32(v, supportsExecSegment)
                THEN <<0, 0, 0, 0, 0, 0, 0, 0>> \o <<0, 0, 0, 0, 0, 0, 0, 16>>
                     \o <<0, 0, 0, 0, 0, 0, 0, 1>>
                ELSE <<>>,
            ident, team, SlotBytes(c)>>)

DefaultCD ==
    [version |-> V20400, hashType |-> CS_HASHTYPE_SHA256, pageSize |-> 1,
     codeLimit |-> 3, nCodeSlots |-> 2, nSpecialSlots |-> 1, hashSize |-> 1,
     ident |-> "ok", team |-> "ok", zeroSpecial |-> FALSE]

DefaultEntry == [kind |-> "req", cd |-> DefaultCD, off |-> "ok"]

\* the bytes of the blob an index entry points at
BlobBytes(e) ==
    IF e.kind = "cd" THEN CDBytes(e.cd)
    ELSE IF e.kind = "req" THEN U32Bytes(CSMAGIC_REQUIREMENTS) \o NatBytes(12) \o NatBytes(0)
    ELSE IF e.kind = "ent" THEN U32Bytes(CSMAGIC_EMBEDDED_ENTITLEMENTS) \o NatBytes(10) \o <<60, 62>>
    ELSE IF e.kind = "wrap" THEN U32Bytes(CSMAGIC_BLOBWRAPPER) \o NatBytes(10) \o <<48, 130>>
    ELSE U32Bytes(CSMAGIC_REQUIREMENT) \o NatBytes(9) \o <<7>>

\* the slot type of an index entry (consts.rs, CSSLOT_*)
SlotType(e, i) ==
    IF e.kind = "cd" THEN (IF i = 1 THEN <<0, 0>> ELSE <<0, 4096>>)
    ELSE IF e.kind = "req" THEN <<0, 2>>
    ELSE IF e.kind = "ent" THEN <<0, 5>>
    ELSE IF e.kind = "wrap" THEN <<1, 0>>
    ELSE <<0, 1>>

RECURSIVE BlobStart(_, _)
\* where blob i starts in an envelope with these entries
BlobStart(entries, i) ==
    IF i = 1 THEN 12 + 8 * Len(entries)
    ELSE BlobStart(entries, i - 1) + Len(BlobBytes(entries[i - 1]))

\* the offset an index entry states: that of its blob, one past every
\* buffer, or one that wraps to position 0 when added to a base of `pad`
StatedOffset(entries, i, pad) ==
    IF entries[i].off = "past" THEN <<0, 4096>>
    ELSE IF entries[i].off = "wrap" /\ pad > 0 THEN <<Half - 1, Half - pad>>
    ELSE U32OfNat(BlobStart(entries, i))

\* `stated` >= 0 replaces the length the envelope states of itself
Envelope(magic, entries, pad, stated) ==
    LET n     == Len(entries)
        total == BlobStart(entries, n + 1)
    IN  U32Bytes(magic) \o NatBytes(IF stated >= 0 THEN stated ELSE total) \o NatBytes(n)
        \o Concat([i \in 1..n |->
                     U32Bytes(SlotType(entries[i], i)) \o U32Bytes(StatedOffset(entries, i, pad))])
        \o Concat([i \in 1..n |-> BlobBytes(entries[i])])

\* what precedes the envelope in the file: bytes that start like a
\* Requirements blob
Padding(pad) ==
    SubSeq(U32Bytes(CSMAGIC_REQUIREMENTS) \o NatBytes(12) \o <<1, 2, 3, 4, 5, 6, 7, 8>>, 1, pad)

Pads == {0, 12}

\* the buffer of a scenario, cut to `keep` bytes when keep >= 0
Build(s) ==
    LET whole == Padding(s.pad) \o Envelope(s.magic, s.entries, s.pad, s.stated)
    IN  IF s.keep >= 0 /\ s.keep < Len(whole) THEN SubSeq(whole, 1, s.keep) ELSE whole

DefaultScenario ==
    [magic |-> CSMAGIC_EMBEDDED_SIGNATURE, entries |-> <<>>, pad |-> 0, cur |-> 0,
     keep |-> -1, stated |-> -1]

OneCD(c) == [DefaultScenario EXCEPT !.entries = <<[DefaultEntry EXCEPT !.kind = "cd", !.cd = c]>>]

\* one CodeDirectory, its page geometry varied
GeometryScenarios ==
    {OneCD([DefaultCD EXCEPT !.pageSize = ps, !.codeLimit = l, !.nCodeSlots = n, !.hashType = h]) :
        ps \in 0..MaxPageSize, l \in 0..MaxCodeLimit, n \in 0..MaxCodeSlots,
        h \in {CS_HASHTYPE_SHA1, CS_HASHTYPE_SHA256}}

\* one CodeDirectory, its hash array varied
HashArrayScenarios ==
    {OneCD([DefaultCD EXCEPT !.nSpecialSlots = ns, !.nCodeSlots = n, !.hashSize = hs,
                             !.zeroSpecial = z, !.codeLimit = 2 * n]) :
        ns \in 0..MaxSpecialSlots, n \in 0..MaxCodeSlots, hs \in 0..MaxHashSize, z \in BOOLEAN}

\* one CodeDirectory, its version, strings and hash type varied
VersionScenarios ==
    {OneCD([DefaultCD EXCEPT !.version = v, !.ident = i, !.team = t, !.hashType = h]) :
        v \in Versions, i \in {"ok", "bad", "wide"}, t \in {"ok", "bad"},
        h \in {CS_HASHTYPE_SHA1, CS_HASHTYPE_SHA256, CS_HASHTYPE_SHA256_TRUNCATED}}

Kinds == {"req", "cd", "wrap", "ent", "unk"}

EntryOf(k, o) == [DefaultEntry EXCEPT !.kind = k, !.off = o]

\* an entry of each kind at its place, one stated past the buffer, one that wraps
EntryChoices ==
    {EntryOf(k, "ok") : k \in Kinds} \cup {EntryOf("cd", "past"), EntryOf("req", "wrap")}

RECURSIVE EntryLists(_)
\* the lists of n entries, each of any kind and with any stated offset
EntryLists(n) ==
    IF n = 0 THEN {<<>>}
    ELSE {Append(l, e) : l \in EntryLists(n - 1), e \in EntryChoices}

\* envelopes of 0..MaxCount blobs of every kind, after 0 or 12 bytes
MixedScenarios ==
    {[DefaultScenario EXCEPT !.entries = l, !.pad = p, !.cur = p] :
        l \in UNION {EntryLists(n) : n \in 0..MaxCount}, p \in Pads}

MaxTruncatedLen == 130

\* envelopes of two blobs cut short at every length, stating their true
\* length or that of their header alone
TruncatedScenarios ==
    {[DefaultScenario EXCEPT !.entries = <<EntryOf(k1, "ok"), EntryOf(k2, "ok")>>,
                             !.keep = n, !.stated = st] :
        k1 \in {"cd", "wrap", "req"}, k2 \in {"req", "cd"}, n \in 0..MaxTruncatedLen,
        st \in {-1, 12}}

\* envelopes with another magic, and a cursor that is not at the envelope
CursorScenarios ==
    {[DefaultScenario EXCEPT !.magic = m, !.entries = <<EntryOf(k, "ok")>>, !.pad = p, !.cur = c] :
        m \in {CSMAGIC_EMBEDDED_SIGNATURE, CSMAGIC_DETACHED_SIGNATURE, <<57005, 48879>>},
        k \in {"cd", "wrap"}, p \in Pads, c \in {0, 4, 12, 16, 4096}}

Scenarios ==
    GeometryScenarios \cup HashArrayScenarios \cup VersionScenarios
    \cup MixedScenarios \cup TruncatedScenarios \cup CursorScenarios

(***************************************************************************)
(* CodeSignature::parse, step by step.                                     *)
(***************************************************************************)
NoPeek == [magic |-> <<0, 0>>, length |-> <<0, 0>>]

NoCD ==
    [start |-> 0, code_directory |-> DefaultCodeDirectory, cd_hash |-> None,
     identifier |-> None, team_id |-> None, hash_type |-> None, cd_hashes |-> None]

NoSuperBlob == [magic |-> <<0, 0>>, length |-> <<0, 0>>, count |-> <<0, 0>>, index |-> <<>>]

Init ==
    \E s \in Scenarios :
        /\ buffer = Build(s)
        /\ offset = U32OfNat(s.pad)
        /\ entry_pos = s.cur
        /\ pos = s.cur
        /\ pc = "start"
        /\ super_blob = NoSuperBlob
        /\ log_digest = None
        /\ idx = 0
        /\ peek = NoPeek
        /\ cd = NoCD
        /\ blobs = <<>>
        /\ cd_blob_idx = None
        /\ result = [kind |-> "pending"]

\* `?` on an Err: parse returns the error
Fail(e) == pc' = "returned" /\ result' = [kind |-> "err", err |-> e]

\* a panic (unimplemented!(), an arithmetic overflow check, a slice index)
Panic == pc' = "panicked" /\ result' = [kind |-> "panic"]

Count == ToU64(super_blob.count)

HasEntry == idx < Count /\ super_blob.index[idx + 1].some

\* `bi`
Bi == super_blob.index[idx + 1].val

\* `offset + bi.offset`
BlobBase == Add32(offset, Bi.offset)

\* `offset + bi.offset + cd.identOffset`
IdentPos ==
    LET s == Add32(BlobBase.val, cd.code_directory.identOffset)
    IN  [val |-> s.val, overflow |-> BlobBase.overflow \/ s.overflow]

\* `offset + bi.offset + cd.teamIDOffset`
TeamPos ==
    LET s == Add32(BlobBase.val, cd.code_directory.teamIDOffset)
    IN  [val |-> s.val, overflow |-> BlobBase.overflow \/ s.overflow]

\* the hash array read from hashOffset on, the special slots not stepped over
HashPos_NoSpecial ==
    LET s == Add32(BlobBase.val, cd.code_directory.hashOffset)
    IN  [val |-> s.val, overflow |-> BlobBase.overflow \/ s.overflow]

\* `offset + bi.offset + cd.hashOffset - (cd.hashSize as u32 * cd.nSpecialSlots)`
HashPos ==
    LET s == Add32(BlobBase.val, cd.code_directory.hashOffset)
        m == Mul32(cd.code_directory.hashSize, cd.code_directory.nSpecialSlots)
        d == Sub32(s.val, m.val)
    IN  [val |-> d.val,
         overflow |-> BlobBase.overflow \/ s.overflow \/ m.overflow \/ d.overflow]

\* `offset as u64 + bi.offset as u64`
WrapperPos ==
    IF offset[1] = 0 /\ Bi.offset[1] = 0 THEN offset[2] + Bi.offset[2] ELSE Beyond

\* the next u32 expression to evaluate leaves the u32 range
OverflowPending ==
    \/ pc = "loop" /\ HasEntry /\ BlobBase.overflow
    \/ pc = "cd_ident" /\ IdentPos.overflow
    \/ pc = "cd_team" /\ TeamPos.overflow
    \/ pc = "cd_hashes" /\ HashPos.overflow

\* a build with overflow checks panics there; one without goes on with the
\* wrapped value (the other actions)
OverflowPanic ==
    /\ OverflowPending
    /\ Panic
    /\ UNCHANGED <<buffer, offset, entry_pos, pos, super_blob, log_digest, idx,
                   peek, cd, blobs, cd_blob_idx>>

\* ReadMagic without the seek(SeekFrom::Current(-4)) of line 358
ReadMagic_NoSeekBack ==
    /\ pc = "start"
    /\ IF ~CanRead(buffer, pos, 4) THEN Fail("IoError") /\ UNCHANGED pos
       ELSE /\ pos' = pos + 4
            /\ IF ReadU32(buffer, pos) = CSMAGIC_EMBEDDED_SIGNATURE
               THEN pc' = "super_blob" /\ UNCHANGED result
               ELSE pc' = "returned" /\ result' = [kind |-> "unhandled"]
    /\ UNCHANGED <<buffer, offset, entry_pos, super_blob, log_digest, idx,
                   peek, cd, blobs, cd_blob_idx>>

\* lines 356-361 and 495-498: the magic at the cursor, read and un-read
ReadMagic ==
    /\ pc = "start"
    /\ IF ~CanRead(buffer, pos, 4) THEN Fail("IoError") /\ UNCHANGED pos
       ELSE /\ pos' = (pos + 4) - 4
            /\ IF ReadU32(buffer, pos) = CSMAGIC_EMBEDDED_SIGNATURE
               THEN pc' = "super_blob" /\ UNCHANGED result
               ELSE pc' = "returned" /\ result' = [kind |-> "unhandled"]
    /\ UNCHANGED <<buffer, offset, entry_pos, super_blob, log_digest, idx,
                   peek, cd, blobs, cd_blob_idx>>

\* lines 362-366
ParseSuperBlob ==
    /\ pc = "super_blob"
    /\ LET r == SuperBlobParse(buffer, pos) IN
        IF ~r.ok THEN Fail(r.err) /\ UNCHANGED super_blob
        ELSE super_blob' = r.val.sb /\ pc' = "digest" /\ UNCHANGED result
    /\ UNCHANGED <<buffer, offset, entry_pos, pos, log_digest, idx, peek, cd,
                   blobs, cd_blob_idx>>

\* lines 367-374
SignatureDigest ==
    /\ pc = "digest"
    /\ LET n == ToU64(super_blob.length) IN
        IF ~CanRead(buffer, pos, n) THEN Fail("IoError") /\ UNCHANGED <<pos, log_digest>>
        ELSE /\ log_digest' = Some(HexDigest(Digest("SHA256", Bytes(buffer, pos, n))))
             /\ pos' = pos + n
             /\ pc' = "loop"
             /\ UNCHANGED result
    /\ UNCHANGED <<buffer, offset, entry_pos, super_blob, idx, peek, cd, blobs, cd_blob_idx>>

\* line 377, an index entry that is None
SkipEntry ==
    /\ pc = "loop"
    /\ idx < Count
    /\ ~super_blob.index[idx + 1].some
    /\ idx' = idx + 1
    /\ UNCHANGED <<buffer, offset, entry_pos, pos, pc, super_blob, log_digest,
                   peek, cd, blobs, cd_blob_idx, result>>

\* lines 378-388: seek to the blob, read magic and length, seek back
PeekBlob ==
    /\ pc = "loop"
    /\ HasEntry
    /\ LET p == ToU64(BlobBase.val) IN
        /\ pos' = p
        /\ IF ~CanRead(buffer, p, 8) THEN Fail("IoError") /\ UNCHANGED peek
           ELSE /\ peek' = [magic |-> ReadU32(buffer, p), length |-> ReadU32(buffer, p + 4)]
                /\ pc' = "dispatch"
                /\ UNCHANGED result
    /\ UNCHANGED <<buffer, offset, entry_pos, super_blob, log_digest, idx, cd,
                   blobs, cd_blob_idx>>

\* the match of line 389 without its CSMAGIC_EMBEDDED_ENTITLEMENTS arm
BlobVariant_NoEntitlements(magic) ==
    IF magic = CSMAGIC_REQUIREMENTS THEN "Requirements"
    ELSE IF magic = CSMAGIC_CODEDIRECTORY THEN "CodeDirectory"
    ELSE IF magic = CSMAGIC_BLOBWRAPPER THEN "SignedData"
    ELSE "Unknown"

\* `match magic` of line 389: the arm, hence the Blob variant, a magic selects
BlobVariant(magic) ==
    IF magic = CSMAGIC_REQUIREMENTS THEN "Requirements"
    ELSE IF magic = CSMAGIC_CODEDIRECTORY THEN "CodeDirectory"
    ELSE IF magic = CSMAGIC_BLOBWRAPPER THEN "SignedData"
    ELSE IF magic = CSMAGIC_EMBEDDED_ENTITLEMENTS THEN "Entitlements"
    ELSE "Unknown"

\* the end of a loop iteration: the blob is pushed
Push(blob) ==
    /\ blobs' = Append(blobs, blob)
    /\ idx' = idx + 1
    /\ peek' = NoPeek
    /\ cd' = NoCD
    /\ pc' = "loop"
    /\ UNCHANGED result

\* lines 390-396
BlobRequirements ==
    /\ pc = "dispatch"
    /\ BlobVariant(peek.magic) = "Requirements"
    /\ Push([variant |-> "Requirements", index |-> Bi])
    /\ UNCHANGED <<buffer, offset, entry_pos, pos, super_blob, log_digest, cd_blob_idx>>

\* lines 465-478
BlobEntitlements ==
    /\ pc = "dispatch"
    /\ BlobVariant(peek.magic) = "Entitlements"
    /\ Push([variant |-> "Entitlements", index |-> Bi,
             entitlements_hash |-> <<>>, entitlements |-> <<>>])
    /\ UNCHANGED <<buffer, offset, entry_pos, pos, super_blob, log_digest, cd_blob_idx>>

\* lines 479-482
BlobUnknown ==
    /\ pc = "dispatch"
    /\ BlobVariant(peek.magic) = "Unknown"
    /\ Push([variant |-> "Unknown", index |-> Bi])
    /\ UNCHANGED <<buffer, offset, entry_pos, pos, super_blob, log_digest, cd_blob_idx>>

\* lines 449-464
BlobSignedData ==
    /\ pc = "dispatch"
    /\ BlobVariant(peek.magic) = "SignedData"
    /\ LET p == WrapperPos
           n == ToU64(peek.length) IN
        IF ~CanRead(buffer, p, n)
        THEN Fail("IoError") /\ pos' = p /\ UNCHANGED <<blobs, idx, peek, cd>>
        ELSE /\ pos' = p + n
             /\ Push([variant |-> "SignedData", index |-> Bi, data |-> None,
                      sha256_digest |-> Some(HexDigest(Digest("SHA256", Bytes(buffer, p, n))))])
    /\ UNCHANGED <<buffer, offset, entry_pos, super_blob, log_digest, cd_blob_idx>>

\* lines 397-404
ParseCodeDirectory ==
    /\ pc = "dispatch"
    /\ BlobVariant(peek.magic) = "CodeDirectory"
    /\ cd_blob_idx' = Some(Bi)
    /\ LET r == CodeDirectoryParse(buffer, pos) IN
        IF ~r.ok THEN Fail(r.err) /\ UNCHANGED <<pos, cd>>
        ELSE /\ cd' = [NoCD EXCEPT !.start = pos, !.code_directory = r.val.cd]
             /\ pos' = r.val.pos
             /\ pc' = "cd_hash"
             /\ UNCHANGED result
    /\ UNCHANGED <<buffer, offset, entry_pos, super_blob, log_digest, idx, peek, blobs>>

\* the CDHash taken where CodeDirectory::parse left the cursor
CDHashStart_NoRewind == pos

\* line 414: buf.set_position(pos)
CDHashStart == cd.start

\* lines 413-415
ComputeCDHash ==
    /\ pc = "cd_hash"
    /\ LET r == compute_cd_hash(cd.code_directory, buffer, CDHashStart) IN
        /\ pos' = r.pos
        /\ IF r.kind = "panic" THEN Panic /\ UNCHANGED cd
           ELSE IF ~r.res.ok THEN Fail(r.res.err) /\ UNCHANGED cd
           ELSE cd' = [cd EXCEPT !.cd_hash = r.res.val] /\ pc' = "cd_ident" /\ UNCHANGED result
    /\ UNCHANGED <<buffer, offset, entry_pos, super_blob, log_digest, idx, peek,
                   blobs, cd_blob_idx>>

\* lines 417-418
ReadIdentifier ==
    /\ pc = "cd_ident"
    /\ LET r == read_string_to_nul(buffer, ToU64(IdentPos.val)) IN
        /\ pos' = r.pos
        /\ IF r.kind = "panic" THEN Panic /\ UNCHANGED cd
           ELSE cd' = [cd EXCEPT !.identifier = Some(r.res)] /\ pc' = "cd_team" /\ UNCHANGED result
    /\ UNCHANGED <<buffer, offset, entry_pos, super_blob, log_digest, idx, peek,
                   blobs, cd_blob_idx>>

\* lines 420-421
ReadTeamId ==
    /\ pc = "cd_team"
    /\ LET r == team_id(cd.code_directory, buffer, ToU64(TeamPos.val)) IN
        /\ pos' = r.pos
        /\ IF r.kind = "panic" THEN Panic /\ UNCHANGED cd
           ELSE cd' = [cd EXCEPT !.team_id = Some(r.res)] /\ pc' = "cd_hash_type" /\ UNCHANGED result
    /\ UNCHANGED <<buffer, offset, entry_pos, super_blob, log_digest, idx, peek,
                   blobs, cd_blob_idx>>

\* line 422
HashTypeStr ==
    /\ pc = "cd_hash_type"
    /\ LET r == hash_type_str(cd.code_directory) IN
        IF r.kind = "panic" THEN Panic /\ UNCHANGED cd
        ELSE cd' = [cd EXCEPT !.hash_type = Some(r.res.val)] /\ pc' = "cd_hashes" /\ UNCHANGED result
    /\ UNCHANGED <<buffer, offset, entry_pos, pos, super_blob, log_digest, idx, peek,
                   blobs, cd_blob_idx>>

\* lines 429-434
StoredHashes ==
    /\ pc = "cd_hashes"
    /\ LET r == cd_hashes(cd.code_directory, buffer, ToU64(HashPos.val)) IN
        /\ pos' = r.pos
        /\ cd' = [cd EXCEPT !.cd_hashes = Some(r.res)]
        /\ pc' = "cd_computed"
    /\ UNCHANGED <<buffer, offset, entry_pos, super_blob, log_digest, idx, peek,
                   blobs, cd_blob_idx, result>>

\* lines 436-447
ComputedHashes ==
    /\ pc = "cd_computed"
    /\ LET r == computed_cd_hashes(cd.code_directory, buffer) IN
        /\ pos' = r.pos
        /\ IF r.kind = "panic" THEN Panic /\ UNCHANGED <<blobs, idx, peek, cd>>
           ELSE Push([variant |-> "CodeDirectory",
                      index |-> Bi,
                      code_directory |-> cd.code_directory,
                      identifier |-> cd.identifier.val,
                      team_id |-> cd.team_id.val,
                      hash_type |-> cd.hash_type,
                      cd_hashes |-> cd.cd_hashes.val,
                      computed_cd_hashes |-> r.res,
                      cd_hash |-> cd.cd_hash])
    /\ UNCHANGED <<buffer, offset, entry_pos, super_blob, log_digest, cd_blob_idx>>

\* lines 486-493
Return ==
    /\ pc = "loop"
    /\ idx >= Count
    /\ pc' = "returned"
    /\ result' = [kind |-> "report", offset |-> offset, super_blob |-> super_blob,
                  cd_blob_idx |-> cd_blob_idx, blobs |-> blobs]
    /\ UNCHANGED <<buffer, offset, entry_pos, pos, super_blob, log_digest, idx,
                   peek, cd, blobs, cd_blob_idx>>

Next ==
    \/ ReadMagic
    \/ ParseSuperBlob
    \/ SignatureDigest
    \/ SkipEntry
    \/ PeekBlob
    \/ OverflowPanic
    \/ BlobRequirements
    \/ BlobEntitlements
    \/ BlobUnknown
    \/ BlobSignedData
    \/ ParseCodeDirectory
    \/ ComputeCDHash
    \/ ReadIdentifier
    \/ ReadTeamId
    \/ HashTypeStr
    \/ StoredHashes
    \/ ComputedHashes
    \/ Return

Spec == Init /\ [][Next]_vars

(***************************************************************************)
(* The claims.                                                             *)
(***************************************************************************)
\* the exact (unbounded) sum of two u32, as a position; Beyond or more when
\* it lies past every buffer
ExactSum(a, b) == IF a[1] = 0 /\ b[1] = 0 THEN a[2] + b[2] ELSE 2 * Beyond

\* the CodeDirectory blobs pushed so far
CDBlobs == {i \in 1..Len(blobs) : blobs[i].variant = "CodeDirectory"}

\* the position base_offset + blob_off of the blob of blobs[i]
BaseOf(i) == ExactSum(offset, blobs[i].index.offset)

\* the variant the magic table gives a blob magic
VariantOfMagic(m) ==
    IF m = <<64222, 3073>> THEN "Requirements"
    ELSE IF m = <<64222, 3074>> THEN "CodeDirectory"
    ELSE IF m = <<64222, 2817>> THEN "SignedData"
    ELSE IF m = <<64222, 29041>> THEN "Entitlements"
    ELSE "Unknown"

\* C1: when parse returns a report for an envelope whose index entries were
\* all readable, blobs has exactly `count` entries, blobs[i] carries index
\* entry i, and the variant of blobs[i] is the one the table gives the magic
\* found at base_offset + index[i].offset (0xfade0c01 Requirements,
\* 0xfade0c02 CodeDirectory, 0xfade0b01 SignedData, 0xfade7171 Entitlements,
\* anything else Unknown).  The magic "at base_offset + index[i].offset" is
\* there when that exact sum lies in the buffer.
C1_DispatchByMagic ==
    (result.kind = "report" /\ \A i \in 1..Len(result.super_blob.index) :
                                    result.super_blob.index[i].some)
    => /\ Len(result.blobs) = ToU64(result.super_blob.count)
       /\ \A i \in 1..Len(result.blobs) :
            /\ result.blobs[i].index = result.super_blob.index[i].val
            /\ LET p == ExactSum(result.offset, result.super_blob.index[i].val.offset) IN
                p + 4 <= Len(buffer)
                => result.blobs[i].variant = VariantOfMagic(ReadU32(buffer, p))

\* a report of two blobs of different variants, one of them Entitlements,
\* each decided by the magic at its own offset
C1_Witness ==
    /\ result.kind = "report"
    /\ Len(result.blobs) = 2
    /\ result.blobs[1].variant = "Entitlements"
    /\ result.blobs[2].variant = "CodeDirectory"
    /\ ExactSum(result.offset, result.blobs[2].index.offset) + 4 <= Len(buffer)

\* the digest algorithm a hashType selects
AlgorithmOf(hashType) == IF hashType = 1 THEN "SHA1" ELSE "SHA256"

\* C2: the cd_hash reported for a CodeDirectory entry at blob_off is the
\* digest, of the algorithm hashType selects, of exactly the cd.length bytes
\* buffer[base_offset + blob_off .. base_offset + blob_off + cd.length),
\* wherever the header decode left the cursor.
C2_CDHashOverBlob ==
    \A i \in CDBlobs :
        LET c == blobs[i].code_directory
            n == ToU64(c.length)
        IN  BaseOf(i) + n <= Len(buffer)
            => blobs[i].cd_hash =
                 Some(HexDigest(Digest(AlgorithmOf(c.hashType),
                                       SubSeq(buffer, BaseOf(i) + 1, BaseOf(i) + n))))

\* a SHA-1 CDHash over all 49 bytes of a version 0x20000 blob, whose header
\* decode stopped 44 bytes in, is in a report
C2_Witness ==
    /\ result.kind = "report"
    /\ \E i \in CDBlobs :
        /\ blobs[i].code_directory.version = <<2, 0>>
        /\ blobs[i].code_directory.hashType = 1
        /\ blobs[i].cd_hash.some
        /\ Len(blobs[i].cd_hash.val.hex_of[2]) = 49
        /\ BaseOf(i) + 49 <= Len(buffer)

Min(a, b) == IF a < b THEN a ELSE b

\* the pairs (k, digest over image [k*P, min((k+1)*P, L))) for k < n
ExpectedPageHashes(c, image, n, P, L) ==
    [j \in 1..n |->
        <<j - 1, HexDigest(Digest(AlgorithmOf(c.hashType),
                                  SubSeq(image, (j - 1) * P + 1, Min(j * P, L))))>>]

\* pageSize > 0, codeLimit64 = 0, nCodeSlots = ceil(codeLimit / P), and an
\* image of at least codeLimit bytes
C3_Pre(c) ==
    LET P == 2 ^ c.pageSize
        L == ToU64(c.codeLimit)
        n == ToU64(c.nCodeSlots)
    IN  /\ c.pageSize > 0
        /\ c.codeLimit64 = U64Zero
        /\ n * P >= L
        /\ (n - 1) * P < L
        /\ Len(buffer) >= L

RECURSIVE DataOf(_)
\* the bytes hashed by a sequence of (k, digest) pairs, in order
DataOf(pairs) ==
    IF pairs = <<>> THEN <<>> ELSE Head(pairs)[2].hex_of[2] \o DataOf(Tail(pairs))

\* C3: with pageSize > 0, codeLimit64 = 0, L = codeLimit, P = 1 << pageSize
\* and nCodeSlots = ceil(L / P), over an image of at least L bytes,
\* computed_cd_hashes returns exactly nCodeSlots pairs (k, digest), k
\* ascending from 0, the k-th digest over image bytes [k*P, min((k+1)*P, L));
\* the windows laid end to end are exactly image[0, L).
C3_PageWindows ==
    /\ (pc = "cd_computed" /\ C3_Pre(cd.code_directory))
       => LET r == computed_cd_hashes(cd.code_directory, buffer)
          IN  r.kind = "returned" /\ r.res.ok
    /\ \A i \in CDBlobs :
        LET c == blobs[i].code_directory
            P == 2 ^ c.pageSize
            L == ToU64(c.codeLimit)
            n == ToU64(c.nCodeSlots)
        IN  C3_Pre(c)
            => /\ blobs[i].computed_cd_hashes = Ok(ExpectedPageHashes(c, buffer, n, P, L))
               /\ DataOf(blobs[i].computed_cd_hashes.val) = SubSeq(buffer, 1, L)

\* three pages were hashed, the last one short (L = 5, P = 2)
C3_Witness ==
    \E i \in CDBlobs :
        /\ C3_Pre(blobs[i].code_directory)
        /\ blobs[i].code_directory.pageSize = 1
        /\ blobs[i].code_directory.codeLimit = <<0, 5>>
        /\ blobs[i].computed_cd_hashes.ok
        /\ Len(blobs[i].computed_cd_hashes.val) = 3
        /\ Len(blobs[i].computed_cd_hashes.val[3][2].hex_of[2]) = 1

\* C4: for a CodeDirectory blob at base = base_offset + blob_off whose hash
\* array lies in the buffer, the stored-hash table has exactly
\* nSpecialSlots + nCodeSlots pairs (i, hex), i ascending from -nSpecialSlots
\* to nCodeSlots - 1, and the pair of index i holds the hashSize bytes at
\* buffer[base + hashOffset + i*hashSize .. base + hashOffset + (i+1)*hashSize);
\* a zero-filled special slot is an all-zero entry, not an error.
C4_StoredHashTable ==
    \A b \in CDBlobs :
        LET c  == blobs[b].code_directory
            ns == ToU64(c.nSpecialSlots)
            nc == ToU64(c.nCodeSlots)
            H  == BaseOf(b) + ToU64(c.hashOffset)
        IN  (H - ns * c.hashSize >= 0 /\ H + nc * c.hashSize <= Len(buffer))
            => /\ blobs[b].cd_hashes.ok
               /\ Len(blobs[b].cd_hashes.val) = ns + nc
               /\ \A k \in 1..(ns + nc) :
                    LET i == k - 1 - ns IN
                    /\ blobs[b].cd_hashes.val[k][1] = i
                    /\ HexDecode(blobs[b].cd_hashes.val[k][2])
                         = SubSeq(buffer, H + i * c.hashSize + 1, H + (i + 1) * c.hashSize)
                    /\ Len(blobs[b].cd_hashes.val[k][2]) = 2 * c.hashSize

\* a table with two zero-filled special slots before two code slots, read
\* as all-zero entries
C4_Witness ==
    \E b \in CDBlobs :
        /\ blobs[b].code_directory.nSpecialSlots = <<0, 2>>
        /\ blobs[b].code_directory.nCodeSlots = <<0, 2>>
        /\ blobs[b].code_directory.hashSize = 2
        /\ blobs[b].cd_hashes.ok
        /\ blobs[b].cd_hashes.val[1] = <<-2, <<0, 0, 0, 0>>>>
        /\ blobs[b].cd_hashes.val[3][1] = 0
        /\ blobs[b].cd_hashes.val[3][2] # <<0, 0, 0, 0>>

\* the 4-byte magic parse reads on entry is there and is not
\* CSMAGIC_EMBEDDED_SIGNATURE
C5_OtherMagic ==
    /\ CanRead(buffer, entry_pos, 4)
    /\ ReadU32(buffer, entry_pos) # <<64222, 3264>>

\* C5: when the magic of the envelope is not EMBEDDED_SIGNATURE, parse
\* returns the non-error `unhandled` result: it neither fails nor panics,
\* parses no SuperBlob, produces no blobs, and leaves the cursor where it
\* was on entry.
C5_UnhandledMagic ==
    C5_OtherMagic
    => /\ pc \in {"start", "returned"}
       /\ pc = "returned"
          => /\ result.kind = "unhandled"
             /\ blobs = <<>>
             /\ super_blob = NoSuperBlob
             /\ log_digest = None
             /\ pos = entry_pos

\* parse returned for an envelope of magic 0xdeadbeef read at cursor 12
C5_Witness ==
    /\ C5_OtherMagic
    /\ ReadU32(buffer, entry_pos) = <<57005, 48879>>
    /\ entry_pos = 12
    /\ pc = "returned"
    /\ result.kind = "unhandled"

\* C6: a failure confined to one index entry's blob (a truncated peek, a
\* truncated CodeDirectory header, CDHash range or BlobWrapper, a bad string)
\* is recorded inside that entry and never makes parse return an error: once
\* the envelope itself was read, parse returns a report with a blob for every
\* index entry that was read.
C6_PerBlobFailuresCaptured ==
    (pc = "returned" /\ log_digest.some)
    => /\ result.kind = "report"
       /\ Len(result.blobs)
            = Cardinality({i \in 1..Len(super_blob.index) : super_blob.index[i].some})

\* the first CodeDirectory blob of a report, in index order
FirstCD(bs) ==
    LET cds == {i \in 1..Len(bs) : bs[i].variant = "CodeDirectory"}
    IN  IF cds = {} THEN None
        ELSE Some(bs[CHOOSE i \in cds : \A j \in cds : i <= j].index)

\* C7: the cd_blob_idx of a report is the index entry of the first blob, in
\* index order, whose magic is CODEDIRECTORY, and None exactly when there is
\* no such blob.
C7_PrimaryIsFirstCD ==
    result.kind = "report" => result.cd_blob_idx = FirstCD(result.blobs)

U64FromBytes(b) ==
    <<b[1] * 256 + b[2], b[3] * 256 + b[4], b[5] * 256 + b[6], b[7] * 256 + b[8]>>

\* C8: CodeDirectory::parse of a blob at s reads scatterOffset iff version >=
\* 0x20100, teamIDOffset iff version >= 0x20200, spare3 and codeLimit64 iff
\* version >= 0x20300, execSegBase/Limit/Flags iff version >= 0x20400, each
\* from its place in the header; the fields above the version are 0 and the
\* cursor ends right after the last field read.
C8_VersionedFields ==
    (pc = "cd_hash" /\ CanRead(buffer, cd.start, HeaderLen(cd.code_directory.version)))
    => LET c == cd.code_directory
           s == cd.start
           v == c.version
       IN  /\ c.scatterOffset =
                (IF Geq32(v, <<2, 256>>) THEN ReadU32(buffer, s + 44) ELSE <<0, 0>>)
           /\ c.teamIDOffset =
                (IF Geq32(v, <<2, 512>>) THEN ReadU32(buffer, s + 48) ELSE <<0, 0>>)
           /\ c.spare3 =
                (IF Geq32(v, <<2, 768>>) THEN ReadU32(buffer, s + 52) ELSE <<0, 0>>)
           /\ c.codeLimit64 =
                (IF Geq32(v, <<2, 768>>) THEN U64FromBytes(Bytes(buffer, s + 56, 8)) ELSE U64Zero)
           /\ c.execSegBase =
                (IF Geq32(v, <<2, 1024>>) THEN U64FromBytes(Bytes(buffer, s + 64, 8)) ELSE U64Zero)
           /\ c.execSegLimit =
                (IF Geq32(v, <<2, 1024>>) THEN U64FromBytes(Bytes(buffer, s + 72, 8)) ELSE U64Zero)
           /\ c.execSegFlags =
                (IF Geq32(v, <<2, 1024>>) THEN U64FromBytes(Bytes(buffer, s + 80, 8)) ELSE U64Zero)
           /\ pos - s = HeaderLen(v)

\* a version below earliest (0x20001) or above compatibilityLimit (0x2F000)
UnsupportedVersion(v) == ~Geq32(v, <<2, 1>>) \/ ~Geq32(<<2, 61440>>, v)

\* C9: a CodeDirectory blob of an unsupported version is rejected: no
\* CDHash, identifier or stored hashes are reported for it as if it were
\* valid.
C9_UnsupportedVersionRejected ==
    \A i \in CDBlobs :
        UnsupportedVersion(blobs[i].code_directory.version)
        => /\ ~blobs[i].cd_hash.some
           /\ ~blobs[i].identifier.ok
           /\ ~blobs[i].cd_hashes.ok

\* C10: with pageSize = 0 computed_cd_hashes does no paging: it yields
\* exactly one code slot, whose digest covers the image range [0, codeLimit).
C10_NoPaging ==
    \A i \in CDBlobs :
        LET c == blobs[i].code_directory
            L == ToU64(c.codeLimit)
        IN  (c.pageSize = 0 /\ Len(buffer) >= L)
            => blobs[i].computed_cd_hashes =
                 Ok(<< <<0, HexDigest(Digest(AlgorithmOf(c.hashType), SubSeq(buffer, 1, L)))>> >>)

\* C11: SuperBlob::parse succeeds only when count*8 + 12 <= length and all
\* 8*count index bytes were readable: a SuperBlob it returned has exactly
\* `count` index entries, each an actual (type, offset) pair, and a buffer
\* that ends before the index table is complete gives an error, not a
\* SuperBlob.
C11_SuperBlobIndexComplete ==
    super_blob # NoSuperBlob
    => /\ ToU64(super_blob.count) * 8 + 12 <= ToU64(super_blob.length)
       /\ Len(super_blob.index) = ToU64(super_blob.count)
       /\ \A i \in 1..Len(super_blob.index) : super_blob.index[i].some
       /\ CanRead(buffer, entry_pos, 12 + 8 * ToU64(super_blob.count))

\* C12: when a CodeDirectory declares a code slot k whose window starts at
\* or beyond the code limit (k < nCodeSlots, k*P >= L, P = 1 << pageSize,
\* pageSize > 0), computed_cd_hashes reports the format error
\* HashGeometryMismatch and returns no digest of an empty window.
C12_HashGeometryMismatch ==
    \A i \in CDBlobs :
        LET c == blobs[i].code_directory
            P == 2 ^ c.pageSize
            L == ToU64(c.codeLimit)
            n == ToU64(c.nCodeSlots)
        IN  (c.pageSize > 0 /\ Len(buffer) >= L /\ n >= 1 /\ (n - 1) * P >= L)
            => /\ blobs[i].computed_cd_hashes = Err("HashGeometryMismatch")
               /\ ~(/\ blobs[i].computed_cd_hashes.ok
                    /\ \E k \in 1..Len(blobs[i].computed_cd_hashes.val) :
                         blobs[i].computed_cd_hashes.val[k][2].hex_of[2] = <<>>)

\* the name of a defined hash type
HashTypeName(hashType) ==
    IF hashType = 1 THEN "SHA-1"
    ELSE IF hashType = 2 THEN "SHA-256"
    ELSE "SHA-256-truncated"

\* C13: the hash-type handling is total over hash types 1, 2 and 3: parsing
\* a CodeDirectory of any of them never aborts, and the blob reported for it
\* has the name "SHA-1", "SHA-256" or "SHA-256-truncated" and a CDHash.
C13_HashTypesTotal ==
    /\ pc = "panicked" => cd.code_directory.hashType \notin {1, 2, 3}
    /\ \A i \in CDBlobs :
        blobs[i].code_directory.hashType \in {1, 2, 3}
        => /\ blobs[i].hash_type = Some(HashTypeName(blobs[i].code_directory.hashType))
           /\ blobs[i].cd_hash.some

\* C14: every envelope-level read is positioned at base_offset, whatever
\* the cursor was on entry: the magic that decides between a signature and
\* `unhandled`, the SuperBlob header and index, and the superblob.length
\* bytes of the signature digest all come from buffer[base_offset ..], so
\* the outcome depends on the buffer and base_offset alone.
C14_EnvelopeAtBaseOffset ==
    LET base == ToU64(offset) IN
    /\ (pc # "start" /\ CanRead(buffer, base, 4))
       => /\ result.kind = "unhandled" <=> ReadU32(buffer, base) # <<64222, 3264>>
          /\ ~(result.kind = "err" /\ super_blob = NoSuperBlob /\ CanRead(buffer, base, 12))
    /\ super_blob # NoSuperBlob
       => /\ SuperBlobParse(buffer, base).ok
          /\ super_blob = SuperBlobParse(buffer, base).val.sb
    /\ log_digest.some
       => /\ CanRead(buffer, base, ToU64(super_blob.length))
          /\ log_digest = Some(HexDigest(Digest("SHA256",
                                 Bytes(buffer, base, ToU64(super_blob.length)))))

\* C15: every position parse seeks to is the exact integer value of its
\* sum: a blob is peeked at base_offset + blob_off and nowhere else, so a
\* blob is reported only when that exact sum lies in the buffer, and a sum
\* that leaves the 32-bit range gives an error: neither a read at the
\* wrapped position nor an abort.
C15_ExactPositions ==
    /\ pc = "dispatch" => pos = ExactSum(offset, Bi.offset)
    /\ \A i \in 1..Len(blobs) : BaseOf(i) + 8 <= Len(buffer)
    /\ (pc = "panicked" /\ peek = NoPeek /\ HasEntry) => ~BlobBase.overflow

====
